---- MODULE Spec2Model ----
(***************************************************************************)
(* A model of src/src/scaper/scrape.py: a scraper that turns one J-Archive *)
(* game page into CSV rows.  Text is a sequence of one-character strings,  *)
(* an absent text (None) is NoText, an element select_one() does not find *)
(* is NoEl, an absent amount is NoMoney.                                   *)
(***************************************************************************)
EXTENDS Integers, Sequences, FiniteSets, TLC

VARIABLES
  pc,            \* position in main(), or in the driver of a pure function
  arg,           \* argument of the pure function under test
  ret,           \* the results it returned so far, in call order
  url,           \* args.url
  page,          \* the document the server holds for url
  fetchOutcome,  \* what requests.get / raise_for_status will do
  soup,          \* the parsed document, NoSoup until fetched
  metadata,      \* result of extract_show_metadata, NoMetadata until computed
  data,          \* the list scrape_game_from_soup builds
  rows,          \* main()'s rows
  outFile,       \* the file at args.out: NoFile or its rows
  stderr,        \* messages printed to sys.stderr
  stdout,        \* messages printed to sys.stdout
  exitCode       \* Running, then the exit status

vars == <<pc, arg, ret, url, page, fetchOutcome, soup, metadata, data, rows,
          outFile, stderr, stdout, exitCode>>

mainVars == <<url, page, fetchOutcome, soup, metadata, data, rows,
              outFile, stderr, stdout, exitCode>>

\* None where a text is expected; no text holds a string of four characters.
NoText == <<"None">>

\* Longest input string of the string functions' drivers.
MaxStrLen == 4

Strings(alphabet, n) == UNION {[1..k -> alphabet] : k \in 0..n}

----------------------------------------------------------------------------
(* Characters *)

\* What \s matches and str.strip() strips (the ASCII part used here).
Whitespace == {" ", "\t", "\n"}

Digits == {"0", "1", "2", "3", "4", "5", "6", "7", "8", "9"}

DigitVal(c) ==
  CASE c = "0" -> 0 [] c = "1" -> 1 [] c = "2" -> 2 [] c = "3" -> 3
    [] c = "4" -> 4 [] c = "5" -> 5 [] c = "6" -> 6 [] c = "7" -> 7
    [] c = "8" -> 8 [] c = "9" -> 9

DigitChar(d) ==
  CASE d = 0 -> "0" [] d = 1 -> "1" [] d = 2 -> "2" [] d = 3 -> "3"
    [] d = 4 -> "4" [] d = 5 -> "5" [] d = 6 -> "6" [] d = 7 -> "7"
    [] d = 8 -> "8" [] d = 9 -> "9"

----------------------------------------------------------------------------
(* squish *)

RECURSIVE DropLeading(_, _)
\* s without its longest prefix of characters of set.
DropLeading(s, set) ==
  IF s # <<>> /\ Head(s) \in set THEN DropLeading(Tail(s), set) ELSE s

RECURSIVE DropTrailing(_, _)
DropTrailing(s, set) ==
  IF s # <<>> /\ s[Len(s)] \in set
    THEN DropTrailing(SubSeq(s, 1, Len(s) - 1), set)
    ELSE s

\* str.strip()
Strip(s) == DropTrailing(DropLeading(s, Whitespace), Whitespace)

RECURSIVE CollapseWhitespace(_)
\* re.sub(r"\s+", " ", text): every maximal run of whitespace becomes " ".
CollapseWhitespace(s) ==
  IF s = <<>> THEN <<>>
  ELSE IF Head(s) \in Whitespace
    THEN <<" ">> \o CollapseWhitespace(DropLeading(Tail(s), Whitespace))
    ELSE <<Head(s)>> \o CollapseWhitespace(Tail(s))

\* A squish that collapses runs but forgets to strip.
squishNoStrip(text) ==
  IF text = NoText THEN <<>> ELSE CollapseWhitespace(text)

squish(text) ==
  IF text = NoText THEN <<>> ELSE Strip(CollapseWhitespace(text))

----------------------------------------------------------------------------
(* Driver of squish: call it on an input, then on its own result. *)

SquishAlphabet == {" ", "\n", "a", "b"}

\* The process has not exited.
Running == -1

NoSoup == [parsed |-> FALSE]
NoMetadata == [extracted |-> FALSE]
NoFile == [exists |-> FALSE]

\* main() is not running: the state of the drivers of the pure functions.
IdleMain ==
  /\ url = <<>> /\ page = NoSoup /\ fetchOutcome = "ok" /\ soup = NoSoup
  /\ metadata = NoMetadata /\ data = <<>> /\ rows = <<>> /\ outFile = NoFile
  /\ stderr = <<>> /\ stdout = <<>> /\ exitCode = Running

InitSquish ==
  /\ pc = "call"
  /\ arg \in {NoText} \cup Strings(SquishAlphabet, MaxStrLen)
  /\ ret = <<>>
  /\ IdleMain

SquishOnce ==
  /\ pc = "call"
  /\ ret' = <<squish(arg)>>
  /\ pc' = "again"
  /\ UNCHANGED <<arg, mainVars>>

SquishAgain ==
  /\ pc = "again"
  /\ ret' = Append(ret, squish(ret[1]))
  /\ pc' = "returned"
  /\ UNCHANGED <<arg, mainVars>>

NextSquish == SquishOnce \/ SquishAgain

SpecSquish == InitSquish /\ [][NextSquish]_vars

\* C9: squish applied twice equals squish applied once, and a result of
\* squish has no two consecutive whitespace characters and no leading or
\* trailing whitespace; an absent input gives the empty string.
SquishIdempotentAndTidy ==
  /\ Len(ret) >= 1 =>
       /\ \A i \in 1..(Len(ret[1]) - 1) :
            ~(ret[1][i] \in Whitespace /\ ret[1][i + 1] \in Whitespace)
       /\ ret[1] # <<>> =>
            /\ ret[1][1] \notin Whitespace
            /\ ret[1][Len(ret[1])] \notin Whitespace
       /\ arg = NoText => ret[1] = <<>>
  /\ Len(ret) = 2 => ret[2] = ret[1]

\* An input with leading, trailing and repeated inner whitespace was squished twice.
SquishWitness ==
  /\ pc = "returned"
  /\ arg = <<" ", "a", "\n", " ">>
  /\ ret = <<<<"a">>, <<"a">>>>

----------------------------------------------------------------------------
(* parse_money *)

\* None where an amount is expected; parse_money returns no negative number.
NoMoney == -1

RECURSIVE TakeLeading(_, _)
\* The longest prefix of s made of characters of set.
TakeLeading(s, set) ==
  IF s # <<>> /\ Head(s) \in set
    THEN <<Head(s)>> \o TakeLeading(Tail(s), set)
    ELSE <<>>

RECURSIVE FindDigitGroups(_)
\* re.findall(r"(\d[\d,]*)", raw): the non-overlapping matches, scanning
\* left to right, each starting at a digit and running greedily over digits
\* and commas.
FindDigitGroups(s) ==
  IF s = <<>> THEN <<>>
  ELSE IF Head(s) \in Digits
    THEN LET m == TakeLeading(s, Digits \cup {","})
         IN  <<m>> \o FindDigitGroups(SubSeq(s, Len(m) + 1, Len(s)))
    ELSE FindDigitGroups(Tail(s))

\* str.replace(c, "")
Remove(s, c) == SelectSeq(s, LAMBDA x : x # c)

RECURSIVE ToInt(_)
\* int() of a string of decimal digits.
ToInt(s) ==
  IF s = <<>> THEN 0
  ELSE 10 * ToInt(SubSeq(s, 1, Len(s) - 1)) + DigitVal(s[Len(s)])

\* int(amount) raises ValueError unless amount is a non-empty digit string.
IntParses(s) == s # <<>> /\ \A i \in 1..Len(s) : s[i] \in Digits

\* A parse_money that keeps the first digit group instead of the last.
parse_moneyFirstGroup(raw) ==
  IF raw = NoText \/ raw = <<>> THEN NoMoney
  ELSE LET digits == FindDigitGroups(raw)
       IN  IF digits = <<>> THEN NoMoney
           ELSE LET amount == Remove(digits[1], ",")
                IN  IF IntParses(amount) THEN ToInt(amount) ELSE NoMoney

parse_money(raw) ==
  IF raw = NoText \/ raw = <<>> THEN NoMoney
  ELSE LET digits == FindDigitGroups(raw)
       IN  IF digits = <<>> THEN NoMoney
           ELSE LET amount == Remove(digits[Len(digits)], ",")
                IN  IF IntParses(amount) THEN ToInt(amount) ELSE NoMoney

----------------------------------------------------------------------------
(* Driver of parse_money: call it on an input. *)

MoneyAlphabet == {"0", "7", ",", "$", " "}

\* The inputs the docstring of parse_money names.
MoneyExamples == {<<"$", "1", ",", "6", "0", "0">>, <<"D", "D", ":", " ", "$", "1", ",", "8", "0", "0">>, <<"N", "/", "A">>}

InitMoney ==
  /\ pc = "call"
  /\ arg \in {NoText} \cup Strings(MoneyAlphabet, MaxStrLen) \cup MoneyExamples
  /\ ret = <<>>
  /\ IdleMain

MoneyCall ==
  /\ pc = "call"
  /\ ret' = <<parse_money(arg)>>
  /\ pc' = "returned"
  /\ UNCHANGED <<arg, mainVars>>

NextMoney == MoneyCall

SpecMoney == InitMoney /\ [][NextMoney]_vars

\* Positions of s that hold a digit.
DigitPositions(s) == {i \in 1..Len(s) : s[i] \in Digits}

Max(S) == CHOOSE x \in S : \A y \in S : y <= x
Min(S) == CHOOSE x \in S : \A y \in S : x <= y

RECURSIVE Pow10(_)
Pow10(n) == IF n = 0 THEN 1 ELSE 10 * Pow10(n - 1)

RECURSIVE SumOver(_, _, _)
\* The number whose decimal digits are the digits of s at the positions P.
SumOver(s, P, below) ==
  IF P = {} THEN 0
  ELSE LET i == Max(P)
       IN  DigitVal(s[i]) * Pow10(below) + SumOver(s, P \ {i}, below + 1)

\* The last digit group of s: it ends at the last digit of s (commas after
\* it carry no value) and begins at the earliest digit from which only
\* digits and commas lead to that last digit.
LastGroupStart(s) ==
  LET e == Max(DigitPositions(s))
  IN  Min({b \in DigitPositions(s) :
             \A k \in b..e : s[k] \in Digits \cup {","}})

LastGroupValue(s) ==
  LET e == Max(DigitPositions(s))
      b == LastGroupStart(s)
  IN  SumOver(s, {i \in DigitPositions(s) : b <= i /\ i <= e}, 0)

\* C3: parse_money returns absent for an absent or empty input and for one
\* with no digit group; otherwise it returns the non-negative value of the
\* last digit group, commas removed ("DD: $1,800" gives 1800, "$1,600"
\* gives 1600).
ParseMoneyLastGroup ==
  pc = "returned" =>
    /\ (arg = NoText \/ DigitPositions(arg) = {}) => ret[1] = NoMoney
    /\ (arg # NoText /\ DigitPositions(arg) # {}) =>
         /\ ret[1] >= 0
         /\ ret[1] = LastGroupValue(arg)
    /\ arg = <<"D", "D", ":", " ", "$", "1", ",", "8", "0", "0">> => ret[1] = 1800
    /\ arg = <<"$", "1", ",", "6", "0", "0">> => ret[1] = 1600

\* An input with two digit groups, the last one ending in a comma, was
\* parsed to the value of the last group.
ParseMoneyWitness ==
  /\ pc = "returned"
  /\ arg = <<"0", " ", "7", ",">>
  /\ Len(FindDigitGroups(arg)) = 2
  /\ ret = <<7>>

----------------------------------------------------------------------------
(* Elements of the parsed document.  An element that carries text is a     *)
(* record with a field nodes, its text nodes in document order.            *)

\* What select_one() returns when nothing matches.
NoEl == [found |-> FALSE]

RECURSIVE JoinNonEmpty(_)
\* " ".join of the stripped text nodes that are not empty.
JoinNonEmpty(nodes) ==
  IF nodes = <<>> THEN <<>>
  ELSE LET first == Strip(Head(nodes))
           rest  == JoinNonEmpty(Tail(nodes))
       IN  IF first = <<>> THEN rest
           ELSE IF rest = <<>> THEN first
           ELSE first \o <<" ">> \o rest

\* el.get_text(separator=" ", strip=True)
get_text(el) == JoinNonEmpty(el.nodes)

text_or_blank(el) == IF el = NoEl THEN <<>> ELSE squish(get_text(el))

\* clue_answer_td.select_one("em.correct_response")
SelectCorrectResponse(td) == td.em

\* An extract_answer that falls back to the whole text of the reveal cell.
extract_answerWholeCell(clue_answer_td) ==
  IF clue_answer_td = NoEl THEN <<>>
  ELSE text_or_blank(clue_answer_td)

extract_answer(clue_answer_td) ==
  IF clue_answer_td = NoEl THEN <<>>
  ELSE text_or_blank(SelectCorrectResponse(clue_answer_td))

----------------------------------------------------------------------------
(* parse_round.  A round table is [trs], the rows that select("tr") finds; *)
(* a row is [cats, clues], its td.category children and its td.clue cells; *)
(* a td.category is [name], its .category_name element or NoEl; a td.clue  *)
(* is [table, value, texts]: whether it holds a nested table, its value    *)
(* element or NoEl, and its td.clue_text cells, each [id, nodes, em].      *)

\* str.endswith
EndsWith(s, suffix) ==
  /\ Len(s) >= Len(suffix)
  /\ SubSeq(s, Len(s) - Len(suffix) + 1, Len(s)) = suffix

RECURSIVE SelectCategoryCells(_)
\* round_table.select("tr > td.category")
SelectCategoryCells(trs) ==
  IF trs = <<>> THEN <<>>
  ELSE Head(trs).cats \o SelectCategoryCells(Tail(trs))

\* The loop of lines 78-80, keeping only the labels that are not blank.
CategoryNamesNonBlank(cat_cells) ==
  SelectSeq([k \in 1..Len(cat_cells) |-> text_or_blank(cat_cells[k].name)],
            LAMBDA name : name # <<>>)

\* The loop of lines 78-80: one label per category cell, blank or not.
CategoryNames(cat_cells) ==
  [k \in 1..Len(cat_cells) |-> text_or_blank(cat_cells[k].name)]

RECURSIVE PickTds(_, _, _)
\* The loop of lines 108-113: q_td is the first cell whose id does not end
\* in "_r", a_td the last one whose id does.
PickTds(tds, q_td, a_td) ==
  IF tds = <<>> THEN [q_td |-> q_td, a_td |-> a_td]
  ELSE LET td == Head(tds)
       IN  IF EndsWith(td.id, <<"_", "r">>)
             THEN PickTds(Tail(tds), q_td, td)
             ELSE PickTds(Tail(tds), IF q_td # NoEl THEN q_td ELSE td, a_td)

\* A loop body that records every populated cell, clue text or not.
ClueRecordsAlways(categories, col_idx, cell) ==
  IF ~cell.table THEN <<>>
  ELSE
    LET money    == parse_money(text_or_blank(cell.value))
        picked   == PickTds(cell.texts, NoEl, NoEl)
        question == text_or_blank(picked.q_td)
        answer   == extract_answer(picked.a_td)
        topic    == IF col_idx < Len(categories)
                      THEN categories[col_idx + 1]
                      ELSE <<>>
    IN  << [topic |-> topic, money |-> money,
            question |-> question, answer |-> answer] >>

\* The body of the loop over a row's cells, lines 96-127: the records the
\* cell at col_idx (counted from 0) appends to rows.
ClueRecords(categories, col_idx, cell) ==
  IF ~cell.table THEN <<>>
  ELSE
    LET money    == parse_money(text_or_blank(cell.value))
        picked   == PickTds(cell.texts, NoEl, NoEl)
        question == text_or_blank(picked.q_td)
        answer   == extract_answer(picked.a_td)
        topic    == IF col_idx < Len(categories)
                      THEN categories[col_idx + 1]
                      ELSE <<>>
    IN  IF question # <<>> \/ answer # <<>>
          THEN << [topic |-> topic, money |-> money,
                   question |-> question, answer |-> answer] >>
          ELSE <<>>

RECURSIVE ParseCells(_, _, _)
\* for col_idx, cell in enumerate(clue_cells), from col_idx on.
ParseCells(categories, clue_cells, col_idx) ==
  IF col_idx >= Len(clue_cells) THEN <<>>
  ELSE ClueRecords(categories, col_idx, clue_cells[col_idx + 1])
         \o ParseCells(categories, clue_cells, col_idx + 1)

RECURSIVE ParseRows(_, _)
\* for tr in ...: the records of the rows trs, in order.
ParseRows(categories, trs) ==
  IF trs = <<>> THEN <<>>
  ELSE ParseCells(categories, Head(trs).clues, 0)
         \o ParseRows(categories, Tail(trs))

parse_round(round_table) ==
  LET categories == CategoryNames(SelectCategoryCells(round_table.trs))
      all_trs    == round_table.trs
  IN  IF all_trs = <<>> THEN <<>>
      ELSE ParseRows(categories, Tail(all_trs))

----------------------------------------------------------------------------
(* Driver of parse_round: call it on a round table. *)

\* Most category cells, clue cells per row and clue rows of the grids, and
\* most td.clue_text cells per clue cell, that the driver draws.
MaxCats == 2
MaxCells == 2
MaxRows == 2
MaxTds == 2

SeqsUpTo(S, n) == UNION {[1..k -> S] : k \in 0..n}

Text(nodes) == [nodes |-> nodes]

\* td.category cells: no .category_name element, a blank one, two labels.
CategoryCellKinds ==
  { [name |-> NoEl], [name |-> Text(<<<<" ", "\n">>>>)],
    [name |-> Text(<<<<"A">>>>)], [name |-> Text(<<<<" ", "B", " ">>, <<"B">>>>)] }

\* td.clue_text cells: prompt blocks (an id not ending in "_r", or no id)
\* and reveal blocks, with and without an em.correct_response inside.
TdKinds ==
  { [id |-> <<"c", "l", "u", "e", "_", "J", "_", "1", "_", "1">>,   nodes |-> <<<<" ", "\n">>>>,      em |-> NoEl],
    [id |-> <<"c", "l", "u", "e", "_", "J", "_", "1", "_", "1">>,   nodes |-> <<<<"a">>>>,        em |-> NoEl],
    [id |-> <<"c", "l", "u", "e", "_", "J", "_", "1", "_", "1">>,   nodes |-> <<<<"b">>>>,        em |-> Text(<<<<"b">>>>)],
    [id |-> <<>>,            nodes |-> <<<<"c">>>>,        em |-> NoEl],
    [id |-> <<"c", "l", "u", "e", "_", "J", "_", "1", "_", "1", "_", "r">>, nodes |-> <<<<"k">>, <<"x">>>>,  em |-> Text(<<<<"x">>>>)],
    [id |-> <<"c", "l", "u", "e", "_", "J", "_", "1", "_", "1", "_", "r">>, nodes |-> <<<<"k">>>>,        em |-> NoEl],
    [id |-> <<"c", "l", "u", "e", "_", "J", "_", "1", "_", "1", "_", "r">>, nodes |-> <<<<" ">>>>,        em |-> Text(<<<<" ">>>>)],
    [id |-> <<"c", "l", "u", "e", "_", "J", "_", "1", "_", "1", "_", "r">>, nodes |-> <<<<"y">>>>,        em |-> Text(<<<<"y">>>>)] }

ValueKinds == {NoEl, Text(<<<<"$", "2", "0", "0">>>>), Text(<<<<"D", "D", ":", " ", "$", "1", ",", "8", "0", "0">>>>)}

\* Every td.clue built from the kinds above.
AllCells ==
  [table : BOOLEAN, value : ValueKinds, texts : SeqsUpTo(TdKinds, MaxTds)]

\* The cells of the tables with misplaced rows: a placeholder, a clue with a
\* prompt only, a clue with prompt and reveal.
ColumnCells ==
  { [table |-> FALSE, value |-> NoEl, texts |-> <<>>],
    [table |-> TRUE, value |-> Text(<<<<"$", "2", "0", "0">>>>),
     texts |-> << [id |-> <<"c", "l", "u", "e", "_", "J", "_", "1", "_", "1">>, nodes |-> <<<<"a">>>>, em |-> NoEl] >>],
    [table |-> TRUE, value |-> Text(<<<<"D", "D", ":", " ", "$", "1", ",", "8", "0", "0">>>>),
     texts |-> << [id |-> <<"c", "l", "u", "e", "_", "J", "_", "1", "_", "1">>, nodes |-> <<<<"a">>>>, em |-> NoEl],
                  [id |-> <<"c", "l", "u", "e", "_", "J", "_", "1", "_", "1", "_", "r">>, nodes |-> <<<<"k">>, <<"x">>>>,
                   em |-> Text(<<<<"x">>>>)] >>] }

\* The two cells the grids are filled with.
GridCells ==
  { [table |-> FALSE, value |-> NoEl, texts |-> <<>>],
    [table |-> TRUE, value |-> Text(<<<<"$", "2", "0", "0">>>>),
     texts |-> << [id |-> <<"c", "l", "u", "e", "_", "J", "_", "1", "_", "1">>, nodes |-> <<<<"a">>>>, em |-> NoEl] >>] }

HeaderRow(cats) == [cats |-> cats, clues |-> <<>>]
ClueRow(cells) == [cats |-> <<>>, clues |-> cells]

\* Tables of one category row and one clue row of one cell, any cell.
OneCellTables ==
  { [trs |-> <<HeaderRow(<< [name |-> Text(<<<<"A">>>>)] >>), ClueRow(<<cell>>)>>] :
      cell \in AllCells }

\* Tables of a category row and clue rows of placeholder and clue cells.
GridTables ==
  { [trs |-> <<HeaderRow(cats)>> \o [k \in 1..Len(rs) |-> ClueRow(rs[k])]] :
      cats \in SeqsUpTo({ [name |-> NoEl], [name |-> Text(<<<<"A">>>>)] }, MaxCats),
      rs \in SeqsUpTo(SeqsUpTo(GridCells, MaxCells), MaxRows) }

\* Tables whose first row already holds clue cells, whose later rows hold
\* category cells, and the table with no row at all.
OddTables ==
  { [trs |-> <<>>] } \cup
  { [trs |-> << [cats |-> <<c1>>, clues |-> <<cell>>],
                [cats |-> <<c2>>, clues |-> <<cell, cell>>] >>] :
      c1 \in CategoryCellKinds, c2 \in CategoryCellKinds, cell \in ColumnCells }

RoundTables == OneCellTables \cup GridTables \cup OddTables

InitRound ==
  /\ pc = "call"
  /\ arg \in RoundTables
  /\ ret = <<>>
  /\ IdleMain

RoundCall ==
  /\ pc = "call"
  /\ ret' = <<parse_round(arg)>>
  /\ pc' = "returned"
  /\ UNCHANGED <<arg, mainVars>>

NextRound == RoundCall

SpecRound == InitRound /\ [][NextRound]_vars

\* What the claims say of a clue cell, stated on the cell itself.
IsReveal(td) == EndsWith(td.id, <<"_", "r">>)
PromptBlocks(cell) == {k \in 1..Len(cell.texts) : ~IsReveal(cell.texts[k])}
RevealBlocks(cell) == {k \in 1..Len(cell.texts) : IsReveal(cell.texts[k])}

\* Text of the first non-reveal block, empty when there is none.
PromptText(cell) ==
  IF PromptBlocks(cell) = {} THEN <<>>
  ELSE squish(get_text(cell.texts[Min(PromptBlocks(cell))]))

\* Text of the correct-response element of the reveal block, empty when the
\* cell has no reveal block or the block has no such element.
ResponseText(cell) ==
  IF RevealBlocks(cell) = {} THEN <<>>
  ELSE LET td == cell.texts[Max(RevealBlocks(cell))]
       IN  IF td.em = NoEl THEN <<>> ELSE squish(get_text(td.em))

\* The i-th captured category label (i from 0): the text of the i-th
\* td.category's name element, "" where it has none, "" past the last one.
LabelAt(table, i) ==
  LET cats == SelectCategoryCells(table.trs)
  IN  IF i >= Len(cats) THEN <<>>
      ELSE IF cats[i + 1].name = NoEl THEN <<>>
      ELSE squish(get_text(cats[i + 1].name))

\* Positions <<row, column>> of the clue cells in the rows after the first,
\* columns counted from 0 over all of the row's td.clue cells.
CluePositions(table) ==
  UNION { {<<r, i>> : i \in 0..(Len(table.trs[r].clues) - 1)} :
            r \in 2..Len(table.trs) }

CellAt(table, p) == table.trs[p[1]].clues[p[2] + 1]

\* The cells that hold a clue: a nested table and a prompt or a response.
HoldsClue(cell) ==
  cell.table /\ (PromptText(cell) # <<>> \/ ResponseText(cell) # <<>>)

RECURSIVE InReadingOrder(_)
\* The positions of P row by row, left to right.
InReadingOrder(P) ==
  IF P = {} THEN <<>>
  ELSE LET first == CHOOSE p \in P : \A q \in P :
                      p[1] < q[1] \/ (p[1] = q[1] /\ p[2] <= q[2])
       IN  <<first>> \o InReadingOrder(P \ {first})

\* C1: the records of parse_round are those of the clue-holding cells of the
\* rows after the first, in reading order, and the record of the cell at
\* column i (placeholders counted) has the i-th captured label as topic,
\* blank labels kept in place, and "" when i is past the captured labels.
TopicFollowsColumn ==
  pc = "returned" =>
    LET cells == InReadingOrder({p \in CluePositions(arg) :
                                   HoldsClue(CellAt(arg, p))})
    IN  /\ Len(ret[1]) = Len(cells)
        /\ \A k \in 1..Len(cells) :
             /\ ret[1][k].topic = LabelAt(arg, cells[k][2])
             /\ ret[1][k].question = PromptText(CellAt(arg, cells[k]))

\* With one blank label and one label captured, a row of a placeholder and
\* a clue gave the clue the second label, and the next row's only clue got
\* the blank one; the record count shows no cell was skipped.
TopicWitness ==
  /\ pc = "returned"
  /\ Len(arg.trs) = 3
  /\ Len(SelectCategoryCells(arg.trs)) = 2
  /\ LabelAt(arg, 0) = <<>> /\ LabelAt(arg, 1) = <<"A">>
  /\ Len(arg.trs[2].clues) = 2
  /\ ~arg.trs[2].clues[1].table
  /\ Len(arg.trs[3].clues) = 1
  /\ Len(ret[1]) = 2
  /\ ret[1][1].topic = <<"A">>
  /\ ret[1][2].topic = <<>>

\* The populated cells (a nested table) of the rows after the first.
Populated(table) == {p \in CluePositions(table) : CellAt(table, p).table}

\* C10 as stated: a populated cell with no reveal block yields a record with
\* a non-empty question, the text of its first non-reveal block, and an
\* empty answer.  Read on the tables with one populated cell.
PopulatedCellWithoutRevealYieldsRecord ==
  (pc = "returned" /\ Cardinality(Populated(arg)) = 1) =>
    LET cell == CellAt(arg, CHOOSE p \in Populated(arg) : TRUE)
    IN  RevealBlocks(cell) = {} =>
          /\ Len(ret[1]) = 1
          /\ ret[1][1].question # <<>>
          /\ ret[1][1].question = PromptText(cell)
          /\ ret[1][1].answer = <<>>

\* C10, amended: a populated cell with no reveal block whose first
\* non-reveal block has text yields one record, with that text as question
\* and an empty answer; with no non-reveal block, or a blank one, it yields
\* no record.  The answer of any record is the text of the
\* correct-response element of the reveal block, and empty without one.
PromptOnlyCellYieldsPromptOrNothing ==
  (pc = "returned" /\ Cardinality(Populated(arg)) = 1) =>
    LET cell == CellAt(arg, CHOOSE p \in Populated(arg) : TRUE)
    IN  /\ (RevealBlocks(cell) = {} /\ PromptText(cell) # <<>>) =>
             /\ Len(ret[1]) = 1
             /\ ret[1][1].question = PromptText(cell)
             /\ ret[1][1].answer = <<>>
        /\ (RevealBlocks(cell) = {} /\ PromptText(cell) = <<>>) =>
             ret[1] = <<>>
        /\ \A k \in 1..Len(ret[1]) : ret[1][k].answer = ResponseText(cell)

\* A cell with two prompt blocks and no reveal block was recorded with the
\* first prompt and no answer.
PromptOnlyWitness ==
  /\ pc = "returned"
  /\ Cardinality(Populated(arg)) = 1
  /\ LET cell == CellAt(arg, CHOOSE p \in Populated(arg) : TRUE)
     IN  /\ RevealBlocks(cell) = {}
         /\ Len(cell.texts) = 2
         /\ PromptText(cell) = <<"a">>
  /\ Len(ret[1]) = 1
  /\ ret[1][1].question = <<"a">>
  /\ ret[1][1].answer = <<>>

----------------------------------------------------------------------------
(* extract_show_metadata.  The document is [comments, title, tournament,   *)
(* celebrity, college, ...]: the '.game_comments, .game_comment' element   *)
(* and the 'h1, .game_title' element (or NoEl), and whether an element of  *)
(* class tournament_game, celebrity_game, college_game exists.             *)

RECURSIVE Concat(_)
\* el.get_text(): the text nodes joined with nothing between them.
Concat(nodes) ==
  IF nodes = <<>> THEN <<>> ELSE Head(nodes) \o Concat(Tail(nodes))

get_text_raw(el) == Concat(el.nodes)

\* The pattern literal w matches s at position i.
LiteralAt(s, i, w) ==
  /\ i + Len(w) - 1 <= Len(s)
  /\ SubSeq(s, i, i + Len(w) - 1) = w

\* \d{n} matches s at position i.
DigitsAt(s, i, n) ==
  /\ i + n - 1 <= Len(s)
  /\ \A k \in i..(i + n - 1) : s[k] \in Digits

\* Length of the run of characters of set that starts at position i.
RunAt(s, i, set) ==
  IF i > Len(s) THEN 0 ELSE Len(TakeLeading(SubSeq(s, i, Len(s)), set))

\* re.search(r'game_id=(\d+)', url): group 1 of the leftmost match, or NoText.
SearchGameId(s) ==
  LET starts == {i \in 1..Len(s) :
                   LiteralAt(s, i, <<"g", "a", "m", "e", "_", "i", "d", "=">>) /\ DigitsAt(s, i + 8, 1)}
  IN  IF starts = {} THEN NoText
      ELSE LET i == Min(starts)
           IN  SubSeq(s, i + 8, i + 7 + RunAt(s, i + 8, Digits))

\* r'(\d{4}-\d{2}-\d{2})' matches s at position i.
IsoAt(s, i) ==
  /\ DigitsAt(s, i, 4) /\ LiteralAt(s, i + 4, <<"-">>)
  /\ DigitsAt(s, i + 5, 2) /\ LiteralAt(s, i + 7, <<"-">>)
  /\ DigitsAt(s, i + 8, 2)

\* re.search(r'(\d{4}-\d{2}-\d{2})', s): group 1 of the leftmost match, or NoText.
SearchIso(s) ==
  LET starts == {i \in 1..Len(s) : IsoAt(s, i)}
  IN  IF starts = {} THEN NoText
      ELSE SubSeq(s, Min(starts), Min(starts) + 9)

MonthNames ==
  << <<"J", "a", "n", "u", "a", "r", "y">>, <<"F", "e", "b", "r", "u", "a", "r", "y">>, <<"M", "a", "r", "c", "h">>, <<"A", "p", "r", "i", "l">>, <<"M", "a", "y">>, <<"J", "u", "n", "e">>, <<"J", "u", "l", "y">>,
     <<"A", "u", "g", "u", "s", "t">>, <<"S", "e", "p", "t", "e", "m", "b", "e", "r">>, <<"O", "c", "t", "o", "b", "e", "r">>, <<"N", "o", "v", "e", "m", "b", "e", "r">>, <<"D", "e", "c", "e", "m", "b", "e", "r">> >>

WeekdayNames ==
  << <<"M", "o", "n", "d", "a", "y">>, <<"T", "u", "e", "s", "d", "a", "y">>, <<"W", "e", "d", "n", "e", "s", "d", "a", "y">>, <<"T", "h", "u", "r", "s", "d", "a", "y">>, <<"F", "r", "i", "d", "a", "y">>,
     <<"S", "a", "t", "u", "r", "d", "a", "y">>, <<"S", "u", "n", "d", "a", "y">> >>

NoMatch == [matched |-> FALSE]

\* r'(January|...|December)\s+(\d{1,2}),?\s+(\d{4})' tried at position i:
\* the groups, or NoMatch.  No other split of the text can match: each
\* whitespace run and the day's digits must be taken whole.
LongDateAt(s, i) ==
  LET months == {m \in 1..12 : LiteralAt(s, i, MonthNames[m])}
  IN  IF months = {} THEN NoMatch
      ELSE
        LET m    == CHOOSE x \in months : TRUE
            p1   == i + Len(MonthNames[m])
            ws1  == RunAt(s, p1, Whitespace)
            p2   == p1 + ws1
            nd   == RunAt(s, p2, Digits)
            p3   == p2 + nd
            p4   == IF LiteralAt(s, p3, <<",">>) THEN p3 + 1 ELSE p3
            ws2  == RunAt(s, p4, Whitespace)
            p5   == p4 + ws2
        IN  IF ws1 >= 1 /\ nd \in {1, 2} /\ ws2 >= 1 /\ DigitsAt(s, p5, 4)
              THEN [matched |-> TRUE, month |-> MonthNames[m],
                    day |-> SubSeq(s, p2, p3 - 1),
                    year |-> SubSeq(s, p5, p5 + 3)]
              ELSE NoMatch

\* re.search of the long-form pattern: the groups of the leftmost match.
SearchLongDate(s) ==
  LET starts == {i \in 1..Len(s) : LongDateAt(s, i) # NoMatch}
  IN  IF starts = {} THEN NoMatch ELSE LongDateAt(s, Min(starts))

\* r'(Monday|...|Sunday),\s+' followed by the long-form pattern, at i.
WeekdayDateAt(s, i) ==
  LET days == {d \in 1..7 : LiteralAt(s, i, WeekdayNames[d])}
  IN  IF days = {} THEN NoMatch
      ELSE
        LET d   == CHOOSE x \in days : TRUE
            p1  == i + Len(WeekdayNames[d])
            ws  == RunAt(s, p1 + 1, Whitespace)
        IN  IF LiteralAt(s, p1, <<",">>) /\ ws >= 1
              THEN LongDateAt(s, p1 + 1 + ws)
              ELSE NoMatch

SearchWeekdayDate(s) ==
  LET starts == {i \in 1..Len(s) : WeekdayDateAt(s, i) # NoMatch}
  IN  IF starts = {} THEN NoMatch ELSE WeekdayDateAt(s, Min(starts))

MonthNumber(name) == CHOOSE m \in 1..12 : MonthNames[m] = name

IsLeapYear(y) == (y % 4 = 0 /\ y % 100 # 0) \/ y % 400 = 0

DaysInMonth(y, m) ==
  IF m = 2 THEN (IF IsLeapYear(y) THEN 29 ELSE 28)
  ELSE IF m \in {4, 6, 9, 11} THEN 30 ELSE 31

\* datetime accepts year, month, day.
IsCalendarDate(y, m, d) ==
  /\ y >= 1 /\ m \in 1..12
  /\ d >= 1 /\ d <= DaysInMonth(y, m)

RECURSIVE ZeroPad(_, _)
\* n in decimal, zero-padded to width characters.
ZeroPad(n, width) ==
  IF width = 0 THEN <<>>
  ELSE ZeroPad(n \div 10, width - 1) \o <<DigitChar(n % 10)>>

\* datetime.strptime(f"{month} {day} {year}", "%B %d %Y").strftime("%Y-%m-%d"),
\* or NoText where strptime raises ValueError.  (The drivers draw no year
\* between 1 and 999, where the width of %Y depends on the C library.)
ParseLongDate(match) ==
  LET y == ToInt(match.year)
      m == MonthNumber(match.month)
      d == ToInt(match.day)
  IN  IF IsCalendarDate(y, m, d)
        THEN ZeroPad(y, 4) \o <<"-">> \o ZeroPad(m, 2) \o <<"-">> \o ZeroPad(d, 2)
        ELSE NoText

\* Lines 184-200: air_date after the comments region was tried, NoText if
\* the key is still unset.
AirDateFromComments(doc) ==
  IF doc.comments = NoEl THEN NoText
  ELSE LET date_text == get_text_raw(doc.comments)
       IN  IF SearchIso(date_text) # NoText THEN SearchIso(date_text)
           ELSE IF SearchLongDate(date_text) # NoMatch
             THEN ParseLongDate(SearchLongDate(date_text))
             ELSE NoText

\* Lines 203-214: air_date after the title region was tried too.
AirDateFromTitle(doc, air_date) ==
  IF doc.title # NoEl /\ (air_date = NoText \/ air_date = <<>>)
    THEN LET title_text == get_text_raw(doc.title)
         IN  IF SearchWeekdayDate(title_text) # NoMatch
               THEN LET parsed == ParseLongDate(SearchWeekdayDate(title_text))
                    IN  IF parsed # NoText THEN parsed ELSE air_date
               ELSE air_date
    ELSE air_date

\* Lines 219-226.
GameType(doc) ==
  IF doc.tournament THEN <<"T", "o", "u", "r", "n", "a", "m", "e", "n", "t">>
  ELSE IF doc.celebrity THEN <<"C", "e", "l", "e", "b", "r", "i", "t", "y">>
  ELSE IF doc.college THEN <<"C", "o", "l", "l", "e", "g", "e">>
  ELSE <<"R", "e", "g", "u", "l", "a", "r">>

\* dict.setdefault(key, "") on a text value.
SetDefault(value) == IF value = NoText THEN <<>> ELSE value

extract_show_metadata(doc, locator) ==
  [ show_id   |-> SetDefault(SearchGameId(locator)),
    air_date  |-> SetDefault(AirDateFromTitle(doc, AirDateFromComments(doc))),
    game_type |-> GameType(doc) ]

----------------------------------------------------------------------------
(* Driver of extract_show_metadata: call it on a document and a locator. *)

\* Most text fragments of a comments region the driver draws.
MaxFragments == 2

CommentFragments ==
  { <<"a", "i", "r", "e", "d", " ">>, <<"2", "0", "2", "4", "-", "0", "1", "-", "1", "5">>, <<"2", "0", "2", "4", "-", "0", "2", "-", "3", "0">>, <<" ", "F", "e", "b", "r", "u", "a", "r", "y", " ", "3", "0", ",", " ", "2", "0", "2", "4">>,
    <<" ", "M", "a", "r", "c", "h", " ", " ", "9", " ", "2", "0", "2", "3", " ">>, <<"J", "a", "n", "u", "a", "r", "y", " ", "1", "5", ",", " ", "2", "0", "2", "4">> }

CommentTexts ==
  { Concat(fs) : fs \in SeqsUpTo(CommentFragments, MaxFragments) }

TitleTexts ==
  { <<"S", "h", "o", "w", " ", "#", "9", "0", "0", "1", " ", "-", " ", "W", "e", "d", "n", "e", "s", "d", "a", "y", ",", " ", "A", "p", "r", "i", "l", " ", "1", "0", ",", " ", "2", "0", "2", "4">>,
    <<"F", "r", "i", "d", "a", "y", ",", " ", "F", "e", "b", "r", "u", "a", "r", "y", " ", "2", "9", ",", " ", "2", "0", "2", "3">>,
    <<"A", "p", "r", "i", "l", " ", "1", "0", ",", " ", "2", "0", "2", "4">>,
    <<"S", "h", "o", "w", " ", "#", "1">> }

Locators ==
  { <<"h", "t", "t", "p", "s", ":", "/", "/", "j", "-", "a", "r", "c", "h", "i", "v", "e", ".", "c", "o", "m", "/", "s", "h", "o", "w", "g", "a", "m", "e", ".", "p", "h", "p", "?", "g", "a", "m", "e", "_", "i", "d", "=", "8", "8", "8", "1">>,
    <<"s", "h", "o", "w", "g", "a", "m", "e", ".", "p", "h", "p", "?", "g", "a", "m", "e", "_", "i", "d", "=">>,
    <<>> }

MetaDocs ==
  [ comments : {NoEl} \cup {Text(<<t>>) : t \in CommentTexts},
    title : {NoEl} \cup {Text(<<t>>) : t \in TitleTexts},
    tournament : BOOLEAN, celebrity : BOOLEAN, college : BOOLEAN ]

InitMeta ==
  /\ pc = "call"
  /\ arg \in [doc : MetaDocs, locator : Locators]
  /\ ret = <<>>
  /\ IdleMain

MetaCall ==
  /\ pc = "call"
  /\ ret' = <<extract_show_metadata(arg.doc, arg.locator)>>
  /\ pc' = "returned"
  /\ UNCHANGED <<arg, mainVars>>

NextMeta == MetaCall

SpecMeta == InitMeta /\ [][NextMeta]_vars

\* An ISO text YYYY-MM-DD names a calendar date.
IsoIsCalendarDate(t) ==
  IsCalendarDate(ToInt(SubSeq(t, 1, 4)), ToInt(SubSeq(t, 6, 7)),
                 ToInt(SubSeq(t, 9, 10)))

\* The three strategies, each giving the ISO date it converts its match to,
\* or NoText when it finds no match or the match is no calendar date.
StrategyIso(doc) ==
  IF doc.comments = NoEl THEN NoText
  ELSE LET t == SearchIso(get_text_raw(doc.comments))
       IN  IF t # NoText /\ IsoIsCalendarDate(t) THEN t ELSE NoText

StrategyLongForm(doc) ==
  IF doc.comments = NoEl THEN NoText
  ELSE LET m == SearchLongDate(get_text_raw(doc.comments))
       IN  IF m = NoMatch THEN NoText ELSE ParseLongDate(m)

StrategyTitle(doc) ==
  IF doc.title = NoEl THEN NoText
  ELSE LET m == SearchWeekdayDate(get_text_raw(doc.title))
       IN  IF m = NoMatch THEN NoText ELSE ParseLongDate(m)

\* C4: air_date is the result of the first strategy, in the order ISO in the
\* comments, long form in the comments, weekday long form in the title,
\* whose match converts to a calendar date; a match that does not convert
\* leaves air_date unset for the next strategy; "" when all fail.
AirDateFallbackChain ==
  pc = "returned" =>
    ret[1].air_date =
      (IF StrategyIso(arg.doc) # NoText THEN StrategyIso(arg.doc)
       ELSE IF StrategyLongForm(arg.doc) # NoText THEN StrategyLongForm(arg.doc)
       ELSE IF StrategyTitle(arg.doc) # NoText THEN StrategyTitle(arg.doc)
       ELSE <<>>)

----------------------------------------------------------------------------
(* parse_final.  The final round is [name, clue_FJ, clue_FJ_r]: what       *)
(* select_one finds in table.final_round for .category_name, #clue_FJ and  *)
(* #clue_FJ_r, each an element or NoEl.                                    *)

parse_final(doc) ==
  LET final_tbl == doc.final_round
  IN  IF final_tbl = NoEl THEN <<>>
      ELSE
        LET topic    == text_or_blank(final_tbl.name)
            question == text_or_blank(final_tbl.clue_FJ)
            answer   == extract_answer(final_tbl.clue_FJ_r)
        IN  IF question # <<>> \/ answer # <<>>
              THEN << [topic |-> topic, money |-> NoMoney,
                       question |-> question, answer |-> answer] >>
              ELSE <<>>

----------------------------------------------------------------------------
(* write_csv.  A file is a sequence of rows, a row a sequence of fields.   *)

fieldnames ==
  << <<"s", "h", "o", "w", "_", "i", "d">>, <<"a", "i", "r", "_", "d", "a", "t", "e">>, <<"g", "a", "m", "e", "_", "t", "y", "p", "e">>, <<"t", "o", "p", "i", "c">>, <<"m", "o", "n", "e", "y">>,
     <<"q", "u", "e", "s", "t", "i", "o", "n">>, <<"a", "n", "s", "w", "e", "r">> >>

RECURSIVE Decimal(_)
\* str() of a non-negative int, as csv writes it.
Decimal(n) ==
  IF n < 10 THEN <<DigitChar(n)>>
  ELSE Decimal(n \div 10) \o <<DigitChar(n % 10)>>

\* A money field that tests the amount for truth, not for None.
MoneyFieldFalsy(money) ==
  IF money # NoMoney /\ money # 0 THEN Decimal(money) ELSE <<>>

\* r.get("money", "") if r.get("money") is not None else ""
MoneyField(money) ==
  IF money # NoMoney THEN Decimal(money) ELSE <<>>

CsvRow(r, meta) ==
  << meta.show_id, meta.air_date, meta.game_type,
     r.topic, MoneyField(r.money), r.question, r.answer >>

\* The rows write_csv leaves in the file it opens with mode "w".
write_csv(rs, meta) ==
  <<fieldnames>> \o [k \in 1..Len(rs) |-> CsvRow(rs[k], meta)]

----------------------------------------------------------------------------
(* main: fetch, extract_show_metadata, scrape_game_from_soup, write_csv.   *)

\* list.extend at the wrong end.
ExtendFront(list, more) == more \o list

\* list.extend
Extend(list, more) == list \o more

NoCluesWarning == "No clues found"

\* requests.get returns and raise_for_status passes: html is parsed.
FetchOk ==
  /\ pc = "fetch"
  /\ fetchOutcome = "ok"
  /\ soup' = page
  /\ pc' = "extract_metadata"
  /\ UNCHANGED <<arg, ret, url, page, fetchOutcome, metadata, data, rows,
                 outFile, stderr, stdout, exitCode>>

\* The handler of requests.HTTPError, with exit status 0.
FetchHTTPErrorExitsZero ==
  /\ pc = "fetch"
  /\ fetchOutcome = "http_error"
  /\ stderr' = Append(stderr, "HTTP error")
  /\ exitCode' = 0
  /\ pc' = "exited"
  /\ UNCHANGED <<arg, ret, url, page, fetchOutcome, soup, metadata, data,
                 rows, outFile, stdout>>

\* raise_for_status raises requests.HTTPError: lines 277-279.
FetchHTTPError ==
  /\ pc = "fetch"
  /\ fetchOutcome = "http_error"
  /\ stderr' = Append(stderr, "HTTP error")
  /\ exitCode' = 1
  /\ pc' = "exited"
  /\ UNCHANGED <<arg, ret, url, page, fetchOutcome, soup, metadata, data,
                 rows, outFile, stdout>>

\* requests.get raises (no connection, timeout, ...): lines 280-282.
FetchFailed ==
  /\ pc = "fetch"
  /\ fetchOutcome = "connection_error"
  /\ stderr' = Append(stderr, "Failed")
  /\ exitCode' = 1
  /\ pc' = "exited"
  /\ UNCHANGED <<arg, ret, url, page, fetchOutcome, soup, metadata, data,
                 rows, outFile, stdout>>

ExtractMetadata ==
  /\ pc = "extract_metadata"
  /\ metadata' = extract_show_metadata(soup, url)
  /\ pc' = "scrape_jeopardy"
  /\ UNCHANGED <<arg, ret, url, page, fetchOutcome, soup, data, rows,
                 outFile, stderr, stdout, exitCode>>

\* scrape_game_from_soup, lines 157-162.
ScrapeJeopardy ==
  /\ pc = "scrape_jeopardy"
  /\ data' = IF soup.jeopardy_round # NoEl
               THEN Extend(<<>>, parse_round(soup.jeopardy_round))
               ELSE <<>>
  /\ pc' = "scrape_double"
  /\ UNCHANGED <<arg, ret, url, page, fetchOutcome, soup, metadata, rows,
                 outFile, stderr, stdout, exitCode>>

\* scrape_game_from_soup, lines 164-167.
ScrapeDoubleJeopardy ==
  /\ pc = "scrape_double"
  /\ data' = IF soup.double_jeopardy_round # NoEl
               THEN Extend(data, parse_round(soup.double_jeopardy_round))
               ELSE data
  /\ pc' = "scrape_final"
  /\ UNCHANGED <<arg, ret, url, page, fetchOutcome, soup, metadata, rows,
                 outFile, stderr, stdout, exitCode>>

\* scrape_game_from_soup, lines 169-172, and the assignment to rows.
ScrapeFinal ==
  /\ pc = "scrape_final"
  /\ data' = Extend(data, parse_final(soup))
  /\ rows' = data'
  /\ pc' = "check_rows"
  /\ UNCHANGED <<arg, ret, url, page, fetchOutcome, soup, metadata,
                 outFile, stderr, stdout, exitCode>>

\* A check that treats an empty result as fatal.
WarnIfNoRowsAndExit ==
  /\ pc = "check_rows"
  /\ IF rows = <<>>
       THEN /\ stderr' = Append(stderr, NoCluesWarning)
            /\ exitCode' = 1
            /\ pc' = "exited"
       ELSE /\ UNCHANGED <<stderr, exitCode>>
            /\ pc' = "write_csv"
  /\ UNCHANGED <<arg, ret, url, page, fetchOutcome, soup, metadata, data,
                 rows, outFile, stdout>>

\* Lines 271-272.
WarnIfNoRows ==
  /\ pc = "check_rows"
  /\ stderr' = IF rows = <<>> THEN Append(stderr, NoCluesWarning) ELSE stderr
  /\ pc' = "write_csv"
  /\ UNCHANGED <<arg, ret, url, page, fetchOutcome, soup, metadata, data,
                 rows, outFile, stdout, exitCode>>

WriteCsv ==
  /\ pc = "write_csv"
  /\ outFile' = [exists |-> TRUE, lines |-> write_csv(rows, metadata)]
  /\ pc' = "print"
  /\ UNCHANGED <<arg, ret, url, page, fetchOutcome, soup, metadata, data,
                 rows, stderr, stdout, exitCode>>

\* Lines 275-276, and the normal end of the process.
PrintSummary ==
  /\ pc = "print"
  /\ stdout' = stdout \o <<"Wrote rows", "Show metadata">>
  /\ exitCode' = 0
  /\ pc' = "exited"
  /\ UNCHANGED <<arg, ret, url, page, fetchOutcome, soup, metadata, data,
                 rows, outFile, stderr>>

----------------------------------------------------------------------------
(* The runs of main: one per locator, document, fetch outcome and state of *)
(* the output file before the run.                                         *)

PromptTd(nodes) == [id |-> <<"c", "l", "u", "e", "_", "J", "_", "1", "_", "1">>, nodes |-> nodes, em |-> NoEl]
RevealTd(nodes, em) == [id |-> <<"c", "l", "u", "e", "_", "J", "_", "1", "_", "1", "_", "r">>, nodes |-> nodes, em |-> em]

Placeholder == [table |-> FALSE, value |-> NoEl, texts |-> <<>>]

ClueCell(value, texts) == [table |-> TRUE, value |-> value, texts |-> texts]

\* Round tables of main's documents: a full grid row with a placeholder, a
\* row with more clue cells than categories, a table without clues, a table
\* whose only populated cell has neither prompt nor response.
MainTables ==
  { [trs |-> << HeaderRow(<< [name |-> Text(<<<<"A">>>>)],
                             [name |-> Text(<<<<"B">>>>)] >>),
                ClueRow(<< Placeholder,
                           ClueCell(Text(<<<<"$", "2", "0", "0">>>>),
                                    << PromptTd(<<<<"a">>>>),
                                       RevealTd(<<<<"k">>, <<"x">>>>,
                                                Text(<<<<"x">>>>)) >>) >>) >>],
    [trs |-> << HeaderRow(<< [name |-> Text(<<<<"A">>>>)] >>),
                ClueRow(<< ClueCell(Text(<<<<"$", "0">>>>), << PromptTd(<<<<"b">>>>) >>),
                           ClueCell(Text(<<<<"D", "D", ":", " ", "$", "1", ",", "8", "0", "0">>>>),
                                    << RevealTd(<<<<"y">>>>, Text(<<<<"y">>>>)),
                                       PromptTd(<<<<"c", " ", " ", "d">>>>) >>) >>) >>],
    [trs |-> << HeaderRow(<< [name |-> Text(<<<<"A">>>>)] >>),
                ClueRow(<<Placeholder>>) >>],
    [trs |-> << HeaderRow(<< [name |-> NoEl] >>),
                ClueRow(<< ClueCell(NoEl,
                                    << PromptTd(<<<<" ", "\n">>>>),
                                       RevealTd(<<<<"k">>>>, NoEl) >>) >>) >>] }

\* Final rounds: prompt and response, prompt only, neither.
MainFinals ==
  { [name |-> Text(<<<<"F">>>>), clue_FJ |-> PromptTd(<<<<"q">>>>),
     clue_FJ_r |-> RevealTd(<<<<"k">>, <<"z">>>>, Text(<<<<"z">>>>))],
    [name |-> NoEl, clue_FJ |-> PromptTd(<<<<"q">>>>), clue_FJ_r |-> NoEl],
    [name |-> Text(<<<<"F">>>>), clue_FJ |-> NoEl,
     clue_FJ_r |-> RevealTd(<<<<"k">>>>, NoEl)] }

MainDocs ==
  [ jeopardy_round : {NoEl} \cup MainTables,
    double_jeopardy_round : {NoEl} \cup MainTables,
    final_round : {NoEl} \cup MainFinals,
    comments : {NoEl, Text(<<<<"a", "i", "r", "e", "d", " ", "2", "0", "2", "4", "-", "0", "1", "-", "1", "5">>>>)},
    title : {NoEl, Text(<<<<"S", "h", "o", "w", " ", "#", "9", "0", "0", "1", " ", "-", " ", "W", "e", "d", "n", "e", "s", "d", "a", "y", ",", " ", "A", "p", "r", "i", "l", " ", "1", "0", ",", " ", "2", "0", "2", "4">>>>)},
    tournament : BOOLEAN, celebrity : {FALSE}, college : BOOLEAN ]

OldFile == [exists |-> TRUE, lines |-> << <<<<"o", "l", "d">>>> >>]

Init ==
  /\ pc = "fetch"
  /\ arg = <<>> /\ ret = <<>>
  /\ url \in { <<"s", "h", "o", "w", "g", "a", "m", "e", ".", "p", "h", "p", "?", "g", "a", "m", "e", "_", "i", "d", "=", "8", "8", "8", "1">>, <<"s", "h", "o", "w", "g", "a", "m", "e", ".", "p", "h", "p">> }
  /\ page \in MainDocs
  /\ fetchOutcome \in {"ok", "http_error", "connection_error"}
  /\ soup = NoSoup
  /\ metadata = NoMetadata
  /\ data = <<>> /\ rows = <<>>
  /\ outFile \in {NoFile, OldFile}
  /\ stderr = <<>> /\ stdout = <<>>
  /\ exitCode = Running

Next ==
  \/ FetchOk
  \/ FetchHTTPError
  \/ FetchFailed
  \/ ExtractMetadata
  \/ ScrapeJeopardy
  \/ ScrapeDoubleJeopardy
  \/ ScrapeFinal
  \/ WarnIfNoRows
  \/ WriteCsv
  \/ PrintSummary

Spec == Init /\ [][Next]_vars

----------------------------------------------------------------------------
(* Properties of the runs of main *)

\* The run fetched its document and is past scrape_game_from_soup.
Scraped ==
  \/ pc \in {"check_rows", "write_csv", "print"}
  \/ pc = "exited" /\ fetchOutcome = "ok"

\* The run fetched its document and is past write_csv.
Written ==
  \/ pc = "print"
  \/ pc = "exited" /\ fetchOutcome = "ok"

HasClueText(r) == r.question # <<>> \/ r.answer # <<>>

\* C2: every record that parse_round, parse_final and so
\* scrape_game_from_soup put in the list has a non-empty question or a
\* non-empty answer.
RecordsHaveQuestionOrAnswer ==
  /\ \A k \in 1..Len(data) : HasClueText(data[k])
  /\ \A k \in 1..Len(rows) : HasClueText(rows[k])

\* The first round held a populated cell with neither prompt nor response,
\* the final round neither as well, and the run still returned records.
EmptyCellWitness ==
  /\ Scraped
  /\ soup.jeopardy_round # NoEl
  /\ \E p \in Populated(soup.jeopardy_round) :
       /\ PromptText(CellAt(soup.jeopardy_round, p)) = <<>>
       /\ ResponseText(CellAt(soup.jeopardy_round, p)) = <<>>
  /\ soup.final_round # NoEl
  /\ soup.final_round.clue_FJ = NoEl
  /\ soup.final_round.clue_FJ_r.em = NoEl
  /\ Len(rows) = 2

\* C5 as stated: a fetched document with neither main round gives an empty
\* record sequence, a warning, exit status 0 and a file of the header row.
NoMainRoundGivesEmptyOutput ==
  (pc = "exited" /\ fetchOutcome = "ok"
     /\ soup.jeopardy_round = NoEl /\ soup.double_jeopardy_round = NoEl) =>
    /\ rows = <<>>
    /\ \E k \in 1..Len(stderr) : stderr[k] = NoCluesWarning
    /\ exitCode = 0
    /\ outFile = [exists |-> TRUE, lines |-> <<fieldnames>>]

\* The final round is absent, or its prompt and its response are both blank.
FinalHoldsNoClue(doc) ==
  \/ doc.final_round = NoEl
  \/ /\ \/ doc.final_round.clue_FJ = NoEl
        \/ squish(get_text(doc.final_round.clue_FJ)) = <<>>
     /\ \/ doc.final_round.clue_FJ_r = NoEl
        \/ doc.final_round.clue_FJ_r.em = NoEl
        \/ squish(get_text(doc.final_round.clue_FJ_r.em)) = <<>>

\* C5, amended: a fetched document with neither main round and with no
\* final-round clue gives an empty record sequence, a warning, exit status
\* 0 and a file of the header row.
NoRoundAtAllGivesEmptyOutput ==
  (pc = "exited" /\ fetchOutcome = "ok"
     /\ soup.jeopardy_round = NoEl /\ soup.double_jeopardy_round = NoEl
     /\ FinalHoldsNoClue(soup)) =>
    /\ rows = <<>>
    /\ stderr = <<NoCluesWarning>>
    /\ exitCode = 0
    /\ outFile = [exists |-> TRUE, lines |-> <<fieldnames>>]

\* A run on a document with no round at all ended, over an older file.
NoRoundWitness ==
  /\ pc = "exited" /\ fetchOutcome = "ok"
  /\ soup.jeopardy_round = NoEl /\ soup.double_jeopardy_round = NoEl
  /\ soup.final_round = NoEl
  /\ exitCode = 0
  /\ outFile.lines = <<fieldnames>>

\* C6: when the fetch fails, the run prints one message to stderr and exits
\* with status 1 from the fetch itself: no document is parsed, no metadata
\* and no clue extracted, nothing printed to stdout, and the output file is
\* left as it was.
FetchFailureStopsRun ==
  /\ [](fetchOutcome # "ok" =>
          /\ pc \in {"fetch", "exited"}
          /\ soup = NoSoup /\ metadata = NoMetadata
          /\ data = <<>> /\ rows = <<>> /\ stdout = <<>>
          /\ pc = "fetch" => (exitCode = Running /\ stderr = <<>>)
          /\ pc = "exited" =>
               /\ exitCode = 1
               /\ stderr \in {<<"HTTP error">>, <<"Failed">>})
  /\ [][fetchOutcome # "ok" => outFile' = outFile]_vars

\* A run whose fetch met an HTTP error status has exited, an older output
\* file still in place.
FetchFailureWitness ==
  /\ fetchOutcome = "http_error"
  /\ pc = "exited"
  /\ exitCode = 1
  /\ outFile = OldFile

RoundRecords(round_table) ==
  IF round_table = NoEl THEN <<>> ELSE parse_round(round_table)

\* C7: the sequence scrape_game_from_soup returns is the records of the
\* first round, then those of the double round, then the at most one record
\* of the final round, each round contributing nothing when absent.
RowsAreRoundsThenFinal ==
  /\ pc = "scrape_double" => data = RoundRecords(soup.jeopardy_round)
  /\ pc = "scrape_final" =>
       data = RoundRecords(soup.jeopardy_round)
                \o RoundRecords(soup.double_jeopardy_round)
  /\ Scraped =>
       /\ Len(parse_final(soup)) <= 1
       /\ rows = RoundRecords(soup.jeopardy_round)
                   \o RoundRecords(soup.double_jeopardy_round)
                   \o parse_final(soup)

\* Two different rounds and a final round all contributed records.
ConcatenationWitness ==
  /\ Scraped
  /\ soup.jeopardy_round # NoEl /\ soup.double_jeopardy_round # NoEl
  /\ Len(parse_round(soup.jeopardy_round)) = 2
  /\ Len(parse_round(soup.double_jeopardy_round)) = 1
  /\ Len(parse_final(soup)) = 1
  /\ Len(rows) = 4
  /\ rows[3].topic = <<"B">>
  /\ rows[4].money = NoMoney

\* A decimal numeral: digits only, no leading zero unless it is "0".
IsNumeral(t) ==
  /\ t # <<>>
  /\ \A i \in 1..Len(t) : t[i] \in Digits
  /\ (Len(t) > 1 => t[1] # "0")

\* C8: the file write_csv leaves is the header row followed by one row per
\* record, in order, each with the show_id, air_date and game_type of the
\* metadata; the money field is empty exactly when the record has no
\* money, else it is the amount in decimal (0 is written "0").
CsvRowsFollowRecords ==
  Written =>
    /\ outFile.exists
    /\ Len(outFile.lines) = 1 + Len(rows)
    /\ outFile.lines[1] = fieldnames
    /\ \A k \in 1..Len(rows) :
         LET line == outFile.lines[k + 1]
         IN  /\ Len(line) = 7
             /\ line[1] = metadata.show_id
             /\ line[2] = metadata.air_date
             /\ line[3] = metadata.game_type
             /\ line[4] = rows[k].topic
             /\ (line[5] = <<>>) <=> (rows[k].money = NoMoney)
             /\ rows[k].money # NoMoney =>
                  (IsNumeral(line[5]) /\ ToInt(line[5]) = rows[k].money)
             /\ line[6] = rows[k].question
             /\ line[7] = rows[k].answer

\* A record worth 0, one worth 1800 and one without money were written
\* under a show id and an air date.
CsvWitness ==
  /\ Written
  /\ metadata.show_id = <<"8", "8", "8", "1">>
  /\ metadata.air_date = <<"2", "0", "2", "4", "-", "0", "1", "-", "1", "5">>
  /\ \E i, j, k \in 2..Len(outFile.lines) :
       /\ outFile.lines[i][5] = <<"0">>
       /\ outFile.lines[j][5] = <<"1", "8", "0", "0">>
       /\ outFile.lines[k][5] = <<>>
       /\ outFile.lines[k][1] = <<"8", "8", "8", "1">>

====
